---- MODULE Spec2Model ----
(***************************************************************************)
(* Model of crowdstrike_vuln_images_expanded.py: main() authenticates,     *)
(* then runs process_pattern_with_export for every hex digit in order,     *)
(* merges what each call returns into all_export_data and saves it.        *)
(*                                                                         *)
(* The program is one sequential control flow.  pc is its position; every  *)
(* action is the code between two requests to the remote service: it sends *)
(* one request, draws the service's answer with \E, and runs the code that *)
(* handles the answer up to the next request, the blocking sleeps          *)
(* included.  The remote service is the environment: any answer the code   *)
(* distinguishes may come at any time.                                     *)
(*                                                                         *)
(* Time: only the distance token_expiry - time.time() matters to the code  *)
(* (line 100), so the model keeps that distance, token_ttl, floored at 0   *)
(* (0 = expired), and every time.sleep(n) lowers it by n.                  *)
(***************************************************************************)
EXTENDS Integers, Sequences, FiniteSets, TLC

VARIABLES
    pc,               \* position of the control flow
    access_token,     \* self.access_token (0 = None)
    token_ttl,        \* self.token_expiry - time.time(), floored at 0
    idx,              \* main: idx of enumerate(hex_digits, 1)
    attempt,          \* process_pattern_with_export: attempt
    job_id,           \* process_pattern_with_export: job_id (0 = None)
    dl_attempt,       \* download_export: attempt
    headers,          \* download_export: token in headers["Authorization"]
    export_data,      \* main: export_data returned by process_pattern_with_export
    all_export_data,  \* main: all_export_data
    saved,            \* what save_to_json / save_to_csv wrote, in order
    svcStatus,        \* remote service: status of the job the client holds
    svcOrphans,       \* remote service: jobs the client gave up on, still not terminal
    obs,              \* what the last step did: request sent, answer, time slept
    refreshed,        \* download_export: the last download answer was a 401 and
                      \* the refresh after it succeeded
    served,           \* per pattern: the last payload the download endpoint
                      \* answered with 200
    report,           \* per pattern: how process_pattern_with_export ended
    ended,            \* patterns main has finished with
    spinning,         \* download_export: spinner.running, the spinner thread is alive
    submits,          \* submissions sent for the pattern at hand
    quota_hit         \* patterns whose first submission was answered "quota exceeded"

vars == <<pc, access_token, token_ttl, idx, attempt, job_id, dl_attempt, headers,
          export_data, all_export_data, saved, svcStatus, svcOrphans,
          obs, refreshed, served, report, ended, spinning, submits, quota_hit>>

----------------------------------------------------------------------------
(* Bounds of the model *)

\* number of patterns in hex_digits (16 in the source)
NumPatterns == 2
\* most records in one download payload
MaxRecords == 1
\* the service grants expires_in = 60 + 15*k, k in 1..MaxGrant
MaxGrant == 1
\* number of distinct bearer tokens the service hands out
NumTokens == 2

(* Program constants *)

\* process_pattern_with_export: max_attempts
MaxAttempts == 3
\* download_export: max_attempts
DownloadMaxAttempts == 20
\* get_auth_token: margin subtracted from expires_in
ExpiryMargin == 60
\* get_auth_token: result.get('expires_in', 1800)
DefaultExpiresIn == 1800
\* process_pattern_with_export: time.sleep(15) after a job was created
SettleDelay == 15
\* download_export: time.sleep(30) while the job is not DONE
PollInterval == 30
\* download_export: time.sleep(15) after a non-200, non-401 download answer
RetryInterval == 15
\* process_pattern_with_export: time.sleep(60) before a retry
RetryBackoff == 60
\* main: the countdown between two patterns, 5 times time.sleep(1)
NextPatternDelay == 5

None == 0
hex_digits == 1..NumPatterns
total_patterns == NumPatterns

----------------------------------------------------------------------------
(* Values *)

\* None, as download_export and process_pattern_with_export return it
NoData == [kind |-> "none", part |-> 0, n |-> 0]
\* a JSON array of n records of pattern p
ListPayload(p, n) == [kind |-> "list", part |-> p, n |-> n]
\* a JSON object {"resources": [n records]}: one key, so never empty
ObjectPayload(p, n) == [kind |-> "object", part |-> p, n |-> n]
\* the JSON object {}
EmptyObject(p) == [kind |-> "empty_object", part |-> p, n |-> 0]

\* what the download endpoint may hold for a job of pattern p
Payloads(p) ==
    {ListPayload(p, n) : n \in 0..MaxRecords}
        \cup {ObjectPayload(p, n) : n \in 0..MaxRecords}
        \cup {EmptyObject(p)}

\* Python truthiness of what download_export returns (lines 261, 315)
Truthy(data) ==
    CASE data.kind = "none" -> FALSE
      [] data.kind = "list" -> data.n > 0
      [] data.kind = "object" -> TRUE
      [] data.kind = "empty_object" -> FALSE

\* time.sleep(n) seen from the token: the distance to expiry shrinks by n
Sleep(ttl, n) == IF ttl > n THEN ttl - n ELSE 0

\* jobs of this client that the service has not brought to a terminal status
Outstanding == svcOrphans + (IF svcStatus = "RUNNING" THEN 1 ELSE 0)

NoObs == [req |-> "none", part |-> 0, job |-> 0, token |-> 0, valid |-> FALSE,
          resp |-> "none", slept |-> 0, outstanding |-> 0]

\* the request a step sends, as it leaves the client, and what followed it
Obs(req, job, token, resp, slept) ==
    [req |-> req, part |-> idx, job |-> job, token |-> token, valid |-> token_ttl > 0,
     resp |-> resp, slept |-> slept, outstanding |-> Outstanding]

----------------------------------------------------------------------------
(* The remote service's answers, as far as the code tells them apart *)

Tokens == 1..NumTokens
ExpiresInChoices == {ExpiryMargin + 15 * k : k \in 1..MaxGrant}

\* token endpoint: 201 with a new token, another status, or no answer at all
AuthResponses ==
    {[kind |-> "http", code |-> 201, token |-> t, expires_in |-> e] :
        t \in Tokens \ {access_token}, e \in ExpiresInChoices}
        \cup {[kind |-> "http", code |-> 403, token |-> None, expires_in |-> None],
              [kind |-> "exception", code |-> 0, token |-> None, expires_in |-> None]}

QuotaMessage == <<"Quota", "of", "1", "job(s)", "in-progress", "reached">>
OtherMessage == <<"invalid", "filter">>

\* the id the service gives the job it creates for the request at hand: one
\* request is sent per pattern and attempt, so the ids are all different
NewJobId == (idx - 1) * MaxAttempts + attempt + 1

\* export endpoint: the job id list and the error list of the answer.  The
\* service keeps its quota of one job in progress: it creates a job only
\* when none of the account's jobs is in progress.
SubmitResponses ==
    (IF Outstanding = 0
     THEN {[kind |-> "http", code |-> 200, resources |-> <<NewJobId>>, errors |-> <<>>]}
     ELSE {})
    \cup
    {[kind |-> "http", code |-> 200, resources |-> <<>>, errors |-> <<>>],
     [kind |-> "http", code |-> 200, resources |-> <<>>, errors |-> <<QuotaMessage>>],
     [kind |-> "http", code |-> 200, resources |-> <<>>, errors |-> <<OtherMessage>>],
     [kind |-> "http", code |-> 429, resources |-> <<>>, errors |-> <<QuotaMessage>>],
     [kind |-> "http", code |-> 500, resources |-> <<>>, errors |-> <<>>],
     [kind |-> "exception", code |-> 0, resources |-> <<>>, errors |-> <<>>]}

\* the answer says the in-progress-job quota is exceeded
IsQuotaResponse(resp) == resp.kind = "http" /\ QuotaMessage \in {resp.errors[i] : i \in DOMAIN resp.errors}

\* status endpoint: the job's true status, an entry without status, no entry,
\* another HTTP code, or no answer at all
StatusResponses ==
    {[kind |-> "http", code |-> 200, resources |-> <<[status |-> s]>>] :
        s \in {svcStatus, "absent"}}
        \cup {[kind |-> "http", code |-> 200, resources |-> <<>>],
              [kind |-> "http", code |-> 500, resources |-> <<>>],
              [kind |-> "exception", code |-> 0, resources |-> <<>>]}

\* download endpoint: 200 with a payload, 401, another code, or no answer at all
DownloadResponses ==
    {[kind |-> "http", code |-> 200, data |-> d] : d \in Payloads(idx)}
        \cup {[kind |-> "http", code |-> 401, data |-> NoData],
              [kind |-> "http", code |-> 500, data |-> NoData],
              [kind |-> "exception", code |-> 0, data |-> NoData]}

\* what a step's answer was, for obs
RespClass(resp) == IF resp.kind = "exception" THEN "exception" ELSE ToString(resp.code)

----------------------------------------------------------------------------
(* The methods of CrowdStrikeAPI, as functions of the answer they get *)

\* get_auth_token that forgets the credential when the authentication fails
get_auth_tokenClearsOnFailure(resp) ==
    IF resp.kind = "http" /\ resp.code = 201
    THEN [ok |-> TRUE, token |-> resp.token,
          ttl |-> (IF resp.expires_in = None THEN DefaultExpiresIn ELSE resp.expires_in)
                    - ExpiryMargin]
    ELSE [ok |-> FALSE, token |-> None, ttl |-> 0]

\* get_auth_token: the credential after the call and the value returned
get_auth_token(resp) ==
    IF resp.kind = "http" /\ resp.code = 201
    THEN [ok |-> TRUE, token |-> resp.token,
          ttl |-> (IF resp.expires_in = None THEN DefaultExpiresIn ELSE resp.expires_in)
                    - ExpiryMargin]
    ELSE [ok |-> FALSE, token |-> access_token, ttl |-> token_ttl]

\* create_export_job: the job id returned, None on every failure
create_export_job(resp) ==
    IF resp.kind = "exception" THEN None
    ELSE IF resp.code = 200
         THEN IF resp.resources # <<>> /\ resp.errors = <<>>
              THEN resp.resources[1]
              ELSE None
         ELSE None

\* str(job_id) as a sequence of words
Str(j) == IF j = None THEN <<"None">> ELSE <<ToString(j)>>

\* needle in hay, for sequences of words
Contains(hay, needle) ==
    \E i \in 1..(Len(hay) - Len(needle) + 1) :
        SubSeq(hay, i, i + Len(needle) - 1) = needle

\* line 251: "Quota of 1 job(s) in-progress reached" in str(job_id)
QuotaReached(j) == Contains(Str(j), QuotaMessage)

\* check_export_status without the comparison of line 172: True for every
\* 200 that names a resource
check_export_statusAnyStatus(resp) ==
    IF resp.kind = "exception" THEN FALSE
    ELSE IF resp.code = 200
         THEN resp.resources # <<>>
         ELSE FALSE

\* check_export_status: True only for 200 with a first resource of status DONE
check_export_status(resp) ==
    IF resp.kind = "exception" THEN FALSE
    ELSE IF resp.code = 200
         THEN IF resp.resources # <<>>
              THEN (IF resp.resources[1].status = "absent" THEN "unknown"
                    ELSE resp.resources[1].status) = "DONE"
              ELSE FALSE
         ELSE FALSE

\* check_export_status, lines 174-176: the except clause prints a status line
\* (the only print of check_export_status, which has no spinner of its own
\* and stops none)
StatusErrorLine(resp) == resp.kind = "exception"

\* ProcessDownloadResult without the attempt += 1 of line 265: a failed
\* download is followed by a new submission every time
ProcessDownloadResultNoCount(data) ==
    IF Truthy(data)
    THEN [pc |-> "merge", attempt |-> attempt, export_data |-> data, slept |-> 0,
          report |-> "completed"]
    ELSE [pc |-> "submit", attempt |-> attempt, export_data |-> NoData,
          slept |-> RetryBackoff, report |-> "retrying"]

\* process_pattern_with_export, lines 261-271: what follows download_export's return
ProcessDownloadResult(data) ==
    IF Truthy(data)
    THEN [pc |-> "merge", attempt |-> attempt, export_data |-> data, slept |-> 0,
          report |-> "completed"]
    ELSE IF attempt + 1 < MaxAttempts
         THEN [pc |-> "submit", attempt |-> attempt + 1, export_data |-> NoData,
               slept |-> RetryBackoff, report |-> "retrying"]
         ELSE [pc |-> "merge", attempt |-> attempt + 1, export_data |-> NoData,
               slept |-> 0, report |-> "failed"]

\* the entries a payload adds to all_export_data
RecordEntry(data, i) == [unit |-> "record", part |-> data.part, k |-> i]
ObjectEntry(data) == [unit |-> "object", part |-> data.part, k |-> data.n]

\* MergeInto without the isinstance test of line 316: whatever came back is
\* appended as one entry
MergeIntoAlwaysAppend(acc, data) ==
    IF Truthy(data)
    THEN Append(acc, [unit |-> data.kind, part |-> data.part, k |-> data.n])
    ELSE acc

\* main, lines 315-319: extend with a list, append anything else
MergeInto(acc, data) ==
    IF Truthy(data)
    THEN IF data.kind = "list"
         THEN acc \o [i \in 1..data.n |-> RecordEntry(data, i)]
         ELSE Append(acc, ObjectEntry(data))
    ELSE acc

----------------------------------------------------------------------------
(* Initial state: CrowdStrikeAPI.__init__ (lines 59-66) and the start of main *)

Init ==
    /\ pc = "main_auth"
    /\ access_token = None
    /\ token_ttl = 0
    /\ idx = 1
    /\ attempt = 0
    /\ job_id = None
    /\ dl_attempt = 0
    /\ headers = None
    /\ export_data = NoData
    /\ all_export_data = <<>>
    /\ saved = <<>>
    /\ svcStatus = "NONE"
    /\ svcOrphans = 0
    /\ obs = NoObs
    /\ refreshed = FALSE
    /\ served = [p \in hex_digits |-> NoData]
    /\ report = [p \in hex_digits |-> "none"]
    /\ ended = {}
    /\ spinning = FALSE
    /\ submits = 0
    /\ quota_hit = {}

----------------------------------------------------------------------------
(* Steps of the control flow *)

\* MainAuth without the test of line 304: the run goes on whatever
\* get_auth_token returned
MainAuthIgnoresFailure ==
    /\ pc = "main_auth"
    /\ \E resp \in AuthResponses :
        LET r == get_auth_token(resp) IN
        /\ access_token' = r.token
        /\ token_ttl' = r.ttl
        /\ pc' = "submit"
        /\ obs' = Obs("auth", None, None, RespClass(resp), 0)
    /\ UNCHANGED <<idx, attempt, job_id, dl_attempt, headers, export_data,
                   all_export_data, saved, svcStatus, svcOrphans,
                   refreshed, served, report, ended, spinning, submits,
                   quota_hit>>

\* main, lines 302-312: the first get_auth_token; a failure ends the run
MainAuth ==
    /\ pc = "main_auth"
    /\ \E resp \in AuthResponses :
        LET r == get_auth_token(resp) IN
        /\ access_token' = r.token
        /\ token_ttl' = r.ttl
        /\ pc' = IF r.ok THEN "submit" ELSE "exit"
        /\ obs' = Obs("auth", None, None, RespClass(resp), 0)
    /\ UNCHANGED <<idx, attempt, job_id, dl_attempt, headers, export_data,
                   all_export_data, saved, svcStatus, svcOrphans,
                   refreshed, served, report, ended, spinning, submits,
                   quota_hit>>

\* download_export returns data (lines 215, 224, 235, 239) and
\* process_pattern_with_export goes on from line 261; now is the token's
\* distance to expiry at the return.  The job id is not used again, and
\* every return is preceded by spinner.stop().
LeaveDownload(data, now) ==
    LET r == ProcessDownloadResult(data) IN
    /\ pc' = r.pc
    /\ attempt' = r.attempt
    /\ export_data' = r.export_data
    /\ token_ttl' = Sleep(now, r.slept)
    /\ job_id' = None
    /\ dl_attempt' = 0
    /\ headers' = None
    /\ refreshed' = FALSE
    /\ report' = [report EXCEPT ![idx] = r.report]
    /\ svcStatus' = "NONE"
    /\ svcOrphans' = Outstanding
    /\ spinning' = FALSE

\* what the export endpoint's answer was, for obs
SubmitClass(resp) ==
    IF IsQuotaResponse(resp) THEN "quota"
    ELSE IF resp.kind = "http" /\ resp.code = 200 /\ resp.resources # <<>> THEN "created"
    ELSE "failed"

\* process_pattern_with_export, lines 248-260: create_export_job, then either
\* the settle delay and the entry of download_export (lines 180-196), or the
\* quota test of line 251 and the return of line 256
CreateExportJob ==
    /\ pc = "submit"
    /\ attempt < MaxAttempts
    /\ \E resp \in SubmitResponses :
        LET jid == create_export_job(resp)
            created == resp.kind = "http" /\ resp.code = 200 /\ resp.resources # <<>>
        IN
        /\ svcStatus' = IF created THEN "RUNNING" ELSE svcStatus
        /\ submits' = IF submits > MaxAttempts THEN submits ELSE submits + 1
        /\ quota_hit' = IF IsQuotaResponse(resp) /\ submits = 0
                        THEN quota_hit \cup {idx}
                        ELSE quota_hit
        /\ spinning' = (jid # None)
        /\ IF jid # None
           THEN /\ job_id' = jid
                /\ token_ttl' = Sleep(token_ttl, SettleDelay)
                /\ headers' = access_token
                /\ dl_attempt' = 0
                /\ pc' = "dl_status"
                /\ obs' = Obs("submit", None, access_token, SubmitClass(resp), SettleDelay)
                /\ UNCHANGED <<attempt, export_data, report>>
           ELSE IF QuotaReached(jid)
                THEN /\ token_ttl' = Sleep(token_ttl, RetryBackoff)
                     /\ attempt' = attempt + 1
                     /\ pc' = IF attempt + 1 < MaxAttempts THEN "submit" ELSE "merge"
                     /\ report' = [report EXCEPT ![idx] =
                                      IF attempt + 1 < MaxAttempts THEN "rate_limited"
                                      ELSE "failed"]
                     /\ export_data' = NoData
                     /\ obs' = Obs("submit", None, access_token, SubmitClass(resp),
                                   RetryBackoff)
                     /\ UNCHANGED <<job_id, headers, dl_attempt>>
                ELSE /\ pc' = "merge"
                     /\ report' = [report EXCEPT ![idx] = "abandoned"]
                     /\ export_data' = NoData
                     /\ obs' = Obs("submit", None, access_token, SubmitClass(resp), 0)
                     /\ UNCHANGED <<token_ttl, attempt, job_id, headers, dl_attempt>>
    /\ UNCHANGED <<access_token, idx, all_export_data, saved, svcOrphans,
                   refreshed, served, ended>>

\* StatusStep without the attempt += 1 of line 204: a job that is not DONE is
\* polled again without consuming an attempt
StatusStepNoCount(resp) ==
    /\ pc = "dl_status"
    /\ dl_attempt < DownloadMaxAttempts
    /\ IF check_export_status(resp)
       THEN /\ pc' = "dl_get"
            /\ obs' = Obs("status", job_id, access_token, "DONE", 0)
            /\ UNCHANGED <<token_ttl, spinning>>
       ELSE /\ pc' = "dl_status"
            /\ token_ttl' = Sleep(token_ttl, PollInterval)
            /\ spinning' = TRUE
            /\ obs' = Obs("status", job_id, access_token, "not_done", PollInterval)
    /\ UNCHANGED <<access_token, idx, attempt, job_id, dl_attempt, headers,
                   export_data, all_export_data, saved, svcStatus, svcOrphans,
                   refreshed, served, report, ended, submits, quota_hit>>

\* download_export, lines 198-205 (and 237-239 when the attempts run out):
\* one check_export_status call that was answered with resp; a job that is
\* not DONE has the spinner stopped, the line printed and the spinner started
\* again before the wait
StatusStep(resp) ==
    /\ pc = "dl_status"
    /\ dl_attempt < DownloadMaxAttempts
    /\ IF check_export_status(resp)
       THEN /\ pc' = "dl_get"
            /\ obs' = Obs("status", job_id, access_token, "DONE", 0)
            /\ UNCHANGED <<token_ttl, attempt, job_id, dl_attempt, headers,
                           export_data, svcStatus, svcOrphans, refreshed, report,
                           spinning>>
       ELSE IF dl_attempt + 1 < DownloadMaxAttempts
            THEN /\ pc' = "dl_status"
                 /\ dl_attempt' = dl_attempt + 1
                 /\ token_ttl' = Sleep(token_ttl, PollInterval)
                 /\ spinning' = TRUE
                 /\ obs' = Obs("status", job_id, access_token, "not_done",
                               PollInterval)
                 /\ UNCHANGED <<attempt, job_id, headers, export_data, svcStatus,
                                svcOrphans, refreshed, report>>
            ELSE /\ LeaveDownload(NoData, Sleep(token_ttl, PollInterval))
                 /\ obs' = Obs("status", job_id, access_token, "not_done",
                               PollInterval)
    /\ UNCHANGED <<access_token, idx, all_export_data, saved, served, ended,
                   submits, quota_hit>>

\* the status check of download_export, with whatever the service answers
CheckExportStatus ==
    \E resp \in StatusResponses : StatusStep(resp)

\* DownloadRequest with the exception handled like a bad status code: a wait,
\* one attempt consumed, and the same job polled again
DownloadRequestRetriesException ==
    /\ pc = "dl_get"
    /\ \E resp \in DownloadResponses :
        /\ obs' = Obs("download", job_id, headers, RespClass(resp),
                      IF resp.kind = "exception" \/ resp.code \notin {200, 401}
                      THEN RetryInterval ELSE 0)
        /\ IF resp.kind = "http" /\ resp.code = 200
           THEN /\ LeaveDownload(resp.data, token_ttl)
                /\ served' = [served EXCEPT ![idx] = resp.data]
           ELSE IF resp.kind = "http" /\ resp.code = 401
           THEN /\ pc' = "dl_refresh"
                /\ spinning' = FALSE
                /\ UNCHANGED <<token_ttl, attempt, job_id, dl_attempt, headers,
                               export_data, svcStatus, svcOrphans, refreshed, served,
                               report>>
           ELSE IF dl_attempt + 1 < DownloadMaxAttempts
           THEN /\ pc' = "dl_status"
                /\ dl_attempt' = dl_attempt + 1
                /\ token_ttl' = Sleep(token_ttl, RetryInterval)
                /\ refreshed' = FALSE
                /\ spinning' = FALSE
                /\ UNCHANGED <<attempt, job_id, headers, export_data, svcStatus,
                               svcOrphans, served, report>>
           ELSE /\ LeaveDownload(NoData, Sleep(token_ttl, RetryInterval))
                /\ UNCHANGED served
    /\ UNCHANGED <<access_token, idx, all_export_data, saved, ended, submits,
                   quota_hit>>

\* download_export, lines 207-235 (and 237-239): one download request; every
\* branch stops the spinner first
DownloadRequest ==
    /\ pc = "dl_get"
    /\ \E resp \in DownloadResponses :
        /\ obs' = Obs("download", job_id, headers, RespClass(resp),
                      IF resp.kind = "http" /\ resp.code \notin {200, 401}
                      THEN RetryInterval ELSE 0)
        /\ IF resp.kind = "exception"
           THEN LeaveDownload(NoData, token_ttl) /\ UNCHANGED served
           ELSE IF resp.code = 200
           THEN /\ LeaveDownload(resp.data, token_ttl)
                /\ served' = [served EXCEPT ![idx] = resp.data]
           ELSE IF resp.code = 401
           THEN /\ pc' = "dl_refresh"
                /\ spinning' = FALSE
                /\ UNCHANGED <<token_ttl, attempt, job_id, dl_attempt, headers,
                               export_data, svcStatus, svcOrphans, refreshed, served,
                               report>>
           ELSE IF dl_attempt + 1 < DownloadMaxAttempts
           THEN /\ pc' = "dl_status"
                /\ dl_attempt' = dl_attempt + 1
                /\ token_ttl' = Sleep(token_ttl, RetryInterval)
                /\ refreshed' = FALSE
                /\ spinning' = FALSE
                /\ UNCHANGED <<attempt, job_id, headers, export_data, svcStatus,
                               svcOrphans, served, report>>
           ELSE /\ LeaveDownload(NoData, Sleep(token_ttl, RetryInterval))
                /\ UNCHANGED served
    /\ UNCHANGED <<access_token, idx, all_export_data, saved, ended, submits,
                   quota_hit>>

\* RefreshToken without the headers update of line 220: the download goes on
\* with the Authorization header it was started with
RefreshTokenStaleHeaders ==
    /\ pc = "dl_refresh"
    /\ \E resp \in AuthResponses :
        LET r == get_auth_token(resp) IN
        /\ access_token' = r.token
        /\ obs' = Obs("auth", job_id, None, RespClass(resp), 0)
        /\ IF r.ok
           THEN /\ token_ttl' = r.ttl
                /\ pc' = "dl_status"
                /\ refreshed' = TRUE
                /\ spinning' = FALSE
                /\ UNCHANGED <<attempt, job_id, dl_attempt, headers, export_data,
                               svcStatus, svcOrphans, report>>
           ELSE LeaveDownload(NoData, r.ttl)
    /\ UNCHANGED <<idx, all_export_data, saved, served, ended, submits, quota_hit>>

\* RefreshToken for a loop that sends the download again right after the
\* refresh, without a new status check
RefreshTokenRetriesDownload ==
    /\ pc = "dl_refresh"
    /\ \E resp \in AuthResponses :
        LET r == get_auth_token(resp) IN
        /\ access_token' = r.token
        /\ obs' = Obs("auth", job_id, None, RespClass(resp), 0)
        /\ IF r.ok
           THEN /\ token_ttl' = r.ttl
                /\ headers' = r.token
                /\ pc' = "dl_get"
                /\ refreshed' = TRUE
                /\ spinning' = FALSE
                /\ UNCHANGED <<attempt, job_id, dl_attempt, export_data, svcStatus,
                               svcOrphans, report>>
           ELSE LeaveDownload(NoData, r.ttl)
    /\ UNCHANGED <<idx, all_export_data, saved, served, ended, submits, quota_hit>>

\* download_export, lines 219-224: get_auth_token after a 401 (obs.job is
\* the job whose download asked for it); the spinner stopped at line 217 is
\* not started again
RefreshToken ==
    /\ pc = "dl_refresh"
    /\ \E resp \in AuthResponses :
        LET r == get_auth_token(resp) IN
        /\ access_token' = r.token
        /\ obs' = Obs("auth", job_id, None, RespClass(resp), 0)
        /\ IF r.ok
           THEN /\ token_ttl' = r.ttl
                /\ headers' = r.token
                /\ pc' = "dl_status"
                /\ refreshed' = TRUE
                /\ spinning' = FALSE
                /\ UNCHANGED <<attempt, job_id, dl_attempt, export_data, svcStatus,
                               svcOrphans, report>>
           ELSE LeaveDownload(NoData, r.ttl)
    /\ UNCHANGED <<idx, all_export_data, saved, served, ended, submits, quota_hit>>

\* NextIdx for a loop that starts the same pattern again
NextIdxStuck(i) == i

\* main, line 313: the for loop's next idx
NextIdx(i) == i + 1

\* Merge for a loop that stops at the first pattern that returned nothing
MergeBreaksOnFailure ==
    /\ pc = "merge"
    /\ all_export_data' = MergeInto(all_export_data, export_data)
    /\ export_data' = NoData
    /\ ended' = ended \cup {idx}
    /\ attempt' = 0
    /\ IF idx < total_patterns /\ Truthy(export_data)
       THEN /\ idx' = NextIdx(idx)
            /\ token_ttl' = Sleep(token_ttl, NextPatternDelay)
            /\ pc' = "submit"
       ELSE /\ pc' = "save"
            /\ UNCHANGED <<idx, token_ttl>>
    /\ obs' = NoObs
    /\ submits' = 0
    /\ UNCHANGED <<access_token, job_id, dl_attempt, headers, saved, svcStatus,
                   svcOrphans, refreshed, served, report, spinning, quota_hit>>

\* main, lines 315-327: merge what the pattern returned, then the countdown
\* and the next pattern, or the end of the loop
Merge ==
    /\ pc = "merge"
    /\ all_export_data' = MergeInto(all_export_data, export_data)
    /\ export_data' = NoData
    /\ ended' = ended \cup {idx}
    /\ attempt' = 0
    /\ IF idx < total_patterns
       THEN /\ idx' = NextIdx(idx)
            /\ token_ttl' = Sleep(token_ttl, NextPatternDelay)
            /\ pc' = "submit"
       ELSE /\ pc' = "save"
            /\ UNCHANGED <<idx, token_ttl>>
    /\ obs' = NoObs
    /\ submits' = 0
    /\ UNCHANGED <<access_token, job_id, dl_attempt, headers, saved, svcStatus,
                   svcOrphans, refreshed, served, report, spinning, quota_hit>>

\* save_to_csv, lines 288-292: the header row is the first entry's keys and
\* DictWriter raises on an entry with other keys; a record and a composite
\* object do not have the same keys
CsvRaises(data) ==
    \E i, j \in DOMAIN data : data[i].unit # data[j].unit

\* Save without the test of line 329: the files are written also for an
\* empty all_export_data
SaveUnconditional ==
    /\ pc = "save"
    /\ saved' = saved \o <<"raw_export_data.json", "combined_export_report.json">>
    /\ pc' = "done"
    /\ obs' = NoObs
    /\ UNCHANGED <<access_token, token_ttl, idx, attempt, job_id, dl_attempt, headers,
                   export_data, all_export_data, svcStatus, svcOrphans,
                   refreshed, served, report, ended, spinning, submits,
                   quota_hit>>

\* main, lines 329-351: save the collected records, or report that there are none
Save ==
    /\ pc = "save"
    /\ IF all_export_data # <<>>
       THEN IF CsvRaises(all_export_data)
            THEN /\ saved' = saved \o <<"raw_export_data.json",
                                        "combined_export_report.json">>
                 /\ pc' = "crashed"
            ELSE /\ saved' = saved \o <<"raw_export_data.json",
                                        "combined_export_report.json",
                                        "combined_export_report.csv">>
                 /\ pc' = "done"
       ELSE /\ pc' = "done"
            /\ UNCHANGED saved
    /\ obs' = NoObs
    /\ UNCHANGED <<access_token, token_ttl, idx, attempt, job_id, dl_attempt, headers,
                   export_data, all_export_data, svcStatus, svcOrphans,
                   refreshed, served, report, ended, spinning, submits,
                   quota_hit>>

----------------------------------------------------------------------------
(* Steps of the remote service *)

\* the job the client holds reaches a terminal status
JobProgress ==
    /\ svcStatus = "RUNNING"
    /\ svcStatus' \in {"DONE", "FAILED"}
    /\ UNCHANGED <<pc, access_token, token_ttl, idx, attempt, job_id, dl_attempt,
                   headers, export_data, all_export_data, saved, svcOrphans,
                   obs, refreshed, served, report, ended, spinning, submits, quota_hit>>

\* a job the client gave up on reaches a terminal status
OrphanEnds ==
    /\ svcOrphans > 0
    /\ svcOrphans' = svcOrphans - 1
    /\ UNCHANGED <<pc, access_token, token_ttl, idx, attempt, job_id, dl_attempt,
                   headers, export_data, all_export_data, saved, svcStatus,
                   obs, refreshed, served, report, ended, spinning, submits, quota_hit>>

----------------------------------------------------------------------------

Client ==
    \/ MainAuth
    \/ CreateExportJob
    \/ CheckExportStatus
    \/ DownloadRequest
    \/ RefreshToken
    \/ Merge
    \/ Save

Next ==
    \/ MainAuth
    \/ CreateExportJob
    \/ CheckExportStatus
    \/ DownloadRequest
    \/ RefreshToken
    \/ Merge
    \/ Save
    \/ JobProgress
    \/ OrphanEnds

Spec == Init /\ [][Next]_vars

\* the control flow is one thread that is never blocked for ever: each of its
\* steps is taken once it is enabled; the service owes nothing
FairSpec == Init /\ [][Next]_vars /\ WF_vars(Client)

Terminated == pc \in {"exit", "done", "crashed"}

----------------------------------------------------------------------------
(* Claims *)

\* the requests that go to the export service (not the token endpoint)
ExportRequests == {"submit", "status", "download"}

\* C1: at most one export job is outstanding at any time: no export job is
\* submitted while a job this client submitted earlier has not reached a
\* terminal status, also after download_export gave up on that job.
C1_NoSubmitWhileJobOutstanding ==
    obs.req = "submit" => obs.outstanding = 0

\* C2: a submission answered with the quota-exceeded payload is followed by a
\* wait of 60 and costs one attempt, and while attempts remain the next step
\* is another submission for the same pattern; the pattern is not abandoned.
C2_QuotaExceededIsRetried ==
    (obs.req = "submit" /\ obs.resp = "quota") =>
        /\ obs.slept = RetryBackoff
        /\ attempt > 0
        /\ \/ pc = "submit" /\ idx = obs.part
           \/ attempt = MaxAttempts

\* C3: in one download_export call a 401 is followed by one refresh and the
\* retry; a 401 for the retry after a successful refresh ends the call with
\* failure and is not followed by another refresh.
C3_SecondUnauthorizedIsTerminal ==
    pc = "dl_refresh" => ~refreshed

\* C4: a download answered 200 with an empty list completes the pattern with
\* zero records: control is back in main, no attempt was used up for it, and
\* the pattern is reported neither failed nor abandoned.
C4_EmptyResultCompletesPattern ==
    (obs.req = "download" /\ obs.resp = "200"
        /\ served[obs.part] = ListPayload(obs.part, 0)) =>
        /\ pc = "merge"
        /\ report[obs.part] = "completed"

\* C5: every request to the export service is sent with a credential whose
\* recorded expiry is strictly later than the time of sending.
C5_RequestsCarryUnexpiredCredential ==
    obs.req \in ExportRequests => obs.valid

\* what pattern p has added to the accumulator once main is done with it: a
\* list of n records adds n entries, a composite object one entry, and a
\* pattern that got no result, or an empty one, nothing
Contribution(p) ==
    IF p \in ended /\ served[p].kind = "list"
    THEN [i \in 1..served[p].n |-> [unit |-> "record", part |-> p, k |-> i]]
    ELSE IF p \in ended /\ served[p].kind = "object"
    THEN <<[unit |-> "object", part |-> p, k |-> served[p].n]>>
    ELSE <<>>

RECURSIVE ContributionsUpTo(_)
ContributionsUpTo(p) ==
    IF p = 0 THEN <<>> ELSE ContributionsUpTo(p - 1) \o Contribution(p)

\* C6: the accumulator is, at every moment, the contributions of the patterns
\* main has finished, in pattern order, each once: n entries for a list of n
\* records, one entry for a composite object, nothing for a failed pattern;
\* so it only grows, and its final length is the sum of the contributions.
C6_AccumulatorIsTheContributions ==
    all_export_data = ContributionsUpTo(NumPatterns)

\* a run that collected a list from one pattern and an object from a later one
C6_Witness ==
    /\ pc = "save"
    /\ Len(all_export_data) = 2
    /\ all_export_data[1].unit = "record"
    /\ all_export_data[2].unit = "object"
    /\ all_export_data[1].part < all_export_data[2].part

\* C7: every run ends: whatever the service answers, every pattern is
\* eventually completed or abandoned and main reaches its end.
C7_EveryRunEnds ==
    <>Terminated

\* C8: a pattern for which no download was answered 200 adds nothing to the
\* accumulator: no step of its processing changes the accumulator, the merge
\* of its result leaves it as it was, and main goes on to the next pattern
\* (or to the end of the loop after the last one).
C8_AbandonedPatternChangesNothing ==
    [][ /\ (pc # "merge" => all_export_data' = all_export_data)
        /\ (pc = "merge" /\ pc' # "merge" /\ served[idx] = NoData) =>
              /\ all_export_data' = all_export_data
              /\ IF idx < total_patterns
                 THEN idx' = idx + 1 /\ pc' = "submit"
                 ELSE pc' = "save"
      ]_vars

\* the last pattern was given up after its third download_export call, none
\* answered 200, and the records of an earlier pattern are still there
C8_Witness ==
    /\ pc = "save"
    /\ report[NumPatterns] = "failed"
    /\ served[NumPatterns] = NoData
    /\ all_export_data # <<>>

\* C9: a request for a pattern is sent only when every earlier pattern has
\* ended and the pattern itself has not.
C9_PatternsInOrderOneAtATime ==
    obs.req \in ExportRequests =>
        /\ obs.part \notin ended
        /\ \A q \in hex_digits : q < obs.part => q \in ended

\* a download request for the second pattern, the first one ended
C9_Witness ==
    /\ obs.req = "download"
    /\ obs.part = 2
    /\ 1 \in ended

\* the times the accumulator was handed over: the report file written
HandOffs ==
    Cardinality({i \in DOMAIN saved : saved[i] = "combined_export_report.json"})

\* C10 as stated: nothing is written while patterns are processed, and a run
\* that passed authentication ends with exactly one hand-off, also with an
\* empty accumulator.
C10_ExactlyOneHandOff ==
    /\ pc \notin {"done", "crashed"} => saved = <<>>
    /\ pc \in {"done", "crashed"} => ended = hex_digits /\ HandOffs = 1

\* C10 amended: nothing is written while patterns are processed; a run that
\* ends with a non-empty accumulator hands it over exactly once, after the
\* last pattern; a run that ends with an empty accumulator hands over nothing.
C10_OneHandOffUnlessEmpty ==
    /\ pc \notin {"done", "crashed"} => saved = <<>>
    /\ pc \in {"done", "crashed"} =>
          /\ ended = hex_digits
          /\ HandOffs = IF all_export_data # <<>> THEN 1 ELSE 0

\* a run ended after its one hand-off
C10_Witness ==
    /\ pc = "done"
    /\ all_export_data # <<>>
    /\ HandOffs = 1

\* the scenario of C11, as far as the service's answers go: pattern 1 was
\* served a list of one record, the first submission for pattern 2 was
\* answered "quota exceeded", and a download for pattern 2, if one was
\* answered, gave the composite object with two records
C11_Scenario ==
    /\ served[1] = ListPayload(1, 1)
    /\ 2 \in quota_hit
    /\ served[2] \in {NoData, ObjectPayload(2, 2)}

\* C11: in the scenario with two patterns where the first delivers a list of
\* one record and the second is refused once for the quota and then delivers
\* a composite object with two records, the run ends with an accumulator of
\* 3 records and the report envelope written.
C11_ScenarioEndsWithThreeRecords ==
    (pc \in {"done", "crashed"} /\ C11_Scenario) =>
        /\ Len(all_export_data) = 3
        /\ \E i \in DOMAIN saved : saved[i] = "combined_export_report.json"

\* C12: an authentication failure during the initial authentication ends the
\* whole run: no export job is submitted, no status or download request is
\* sent and nothing is saved.  An authentication failure during a refresh
\* ends only the download that asked for it, and the run continues.
C12_AuthFailureScope ==
    /\ pc = "exit" =>
        /\ obs.req = "auth" /\ obs.job = None /\ obs.resp # "201"
        /\ submits = 0 /\ job_id = None /\ svcStatus = "NONE" /\ Outstanding = 0
        /\ ended = {} /\ all_export_data = <<>> /\ saved = <<>>
        /\ ~ENABLED Client
    /\ (obs.req = "auth" /\ obs.resp # "201") =>
        IF obs.job = None
        THEN pc = "exit"
        ELSE /\ pc \in {"submit", "merge"}
             /\ idx = obs.part
             /\ job_id = None
             /\ export_data = NoData
             /\ ENABLED Client

\* a refresh failed for want of an answer and the pattern's next attempt is due
C12_Witness ==
    /\ obs.req = "auth" /\ obs.job # None /\ obs.resp = "exception"
    /\ pc = "submit"
    /\ attempt = 1

\* a step of download_export: the control flow is inside it, and it is not
\* the service that moves
DownloadStep ==
    /\ pc \in {"dl_status", "dl_get", "dl_refresh"}
    /\ <<pc, dl_attempt, obs, token_ttl>>' # <<pc, dl_attempt, obs, token_ttl>>

\* download_export returns its failure value to process_pattern_with_export
ReturnsFailure ==
    /\ pc' \in {"submit", "merge"}
    /\ job_id' = None
    /\ export_data' = NoData

\* what a step that consumes one attempt and waits does: it goes back to the
\* status check, or returns the failure when that was the last attempt,
\* without another request
ConsumesOneAttempt(wait) ==
    /\ obs'.slept = wait
    /\ IF dl_attempt + 1 < DownloadMaxAttempts
       THEN pc' = "dl_status" /\ dl_attempt' = dl_attempt + 1 /\ job_id' = job_id
       ELSE ReturnsFailure

\* C13: within one invocation of download_export the attempt counter never
\* exceeds 20; a status check that is not complete consumes exactly one
\* attempt and is followed by a wait of 30 s, a download answer that is
\* neither 200 nor 401 consumes exactly one attempt and is followed by a wait
\* of 15 s, a 401 with a successful refresh consumes none, and when the
\* counter reaches 20 the invocation returns its failure value without
\* another request.
C13_AttemptBudget ==
    [][/\ dl_attempt' < DownloadMaxAttempts
       /\ DownloadStep =>
            CASE obs'.req = "status" /\ obs'.resp = "not_done" ->
                    ConsumesOneAttempt(PollInterval)
              [] obs'.req = "status" /\ obs'.resp = "DONE" ->
                    pc' = "dl_get" /\ dl_attempt' = dl_attempt
              [] obs'.req = "download" /\ obs'.resp = "500" ->
                    ConsumesOneAttempt(RetryInterval)
              [] obs'.req = "download" /\ obs'.resp = "401" ->
                    pc' = "dl_refresh" /\ dl_attempt' = dl_attempt
              [] obs'.req = "auth" /\ obs'.resp = "201" ->
                    pc' = "dl_status" /\ dl_attempt' = dl_attempt
              [] OTHER -> pc' \in {"submit", "merge"}
      ]_vars

\* the twentieth status check of an invocation was not complete either:
\* download_export returned its failure value and the next attempt is due
C13_Witness ==
    /\ obs.req = "status" /\ obs.resp = "not_done"
    /\ job_id = None
    /\ pc = "submit"
    /\ report[idx] = "retrying"

\* C14: a download request is sent only immediately after a status check for
\* the same job came back complete, also when the download is tried again
\* after a 401 and a successful refresh; no download request is sent for a
\* job whose latest status check said anything else.
C14_DownloadOnlyAfterDone ==
    ENABLED DownloadRequest =>
        /\ obs.req = "status"
        /\ obs.resp = "DONE"
        /\ obs.job = job_id
        /\ job_id # None

\* the download is due again after a 401, a refresh and a new status check
C14_Witness ==
    /\ pc = "dl_get"
    /\ refreshed
    /\ obs.req = "status" /\ obs.resp = "DONE"

\* C15: for every pattern at most 3 export jobs are submitted; a submission
\* that fails with an error other than "quota exceeded" abandons the pattern
\* at once: no further submission, no wait, and nothing returned for it.
C15_SubmissionBudget ==
    /\ submits <= MaxAttempts
    /\ (obs.req = "submit" /\ obs.resp = "failed") =>
        /\ pc = "merge"
        /\ idx = obs.part
        /\ obs.slept = 0
        /\ export_data = NoData
        /\ report[idx] = "abandoned"

\* the third submission for a pattern failed with an error that is not the
\* quota's
C15_Witness ==
    /\ obs.req = "submit" /\ obs.resp = "failed"
    /\ submits = MaxAttempts
    /\ pc = "merge"

\* C16: a 401 answer to a download request makes download_export refresh the
\* token.  After a successful refresh the download for the same job is tried
\* again with the attempt counter unchanged, and every later request of the
\* invocation carries the new token, not the rejected one; after a failed
\* refresh the invocation returns its failure value at once, without another
\* request for that job.
C16_RefreshOnUnauthorized ==
    [][/\ pc' \in {"dl_status", "dl_get"} => headers' = access_token'
       /\ (pc \in {"dl_status", "dl_get"} /\ DownloadStep) =>
            obs'.token = access_token
       /\ (pc = "dl_get" /\ DownloadStep /\ obs'.resp = "401") =>
            pc' = "dl_refresh" /\ job_id' = job_id
       /\ (pc = "dl_refresh" /\ DownloadStep) =>
            /\ obs'.req = "auth"
            /\ IF obs'.resp = "201"
               THEN /\ pc' = "dl_status"
                    /\ job_id' = job_id
                    /\ dl_attempt' = dl_attempt
                    /\ access_token' # access_token
                    /\ headers' # headers
               ELSE ReturnsFailure
      ]_vars

\* after a refresh the download was sent again, with the new token
C16_Witness ==
    /\ pc = "dl_refresh"
    /\ refreshed
    /\ obs.req = "download" /\ obs.job = job_id
    /\ obs.token = access_token

\* C17: a download request that ends in a transport exception ends
\* download_export at once with its failure value, whatever attempts were
\* left; no further status or download request is sent for that job id, and
\* a job id whose download_export returned is never used in a later request:
\* every status and download request carries the id of the job created for
\* the pattern and attempt at hand, and a return of download_export is
\* followed by another attempt or another pattern.
C17_JobIdNotReused ==
    [][/\ (pc = "dl_get" /\ DownloadStep /\ obs'.resp = "exception") =>
            ReturnsFailure
       /\ (pc \in {"dl_status", "dl_get"} /\ DownloadStep) =>
            /\ obs'.req \in {"status", "download"}
            /\ obs'.job = job_id
            /\ job_id = NewJobId
       /\ (job_id # None /\ job_id' # job_id) =>
            /\ job_id' = None
            /\ pc' \in {"submit", "merge"}
            /\ attempt' = attempt + 1 \/ pc' = "merge"
       /\ (job_id = None /\ job_id' # None) =>
            /\ pc = "submit" /\ pc' = "dl_status"
            /\ obs'.req = "submit" /\ obs'.resp = "created"
            /\ job_id' = NewJobId
      ]_vars

\* a download request got no answer while attempts were left, and the next
\* submission for the pattern is due
C17_Witness ==
    /\ obs.req = "download" /\ obs.resp = "exception"
    /\ job_id = None
    /\ pc = "submit"
    /\ attempt = 1

\* every answer the status endpoint can give, whatever the job's status
AnyStatusAnswer ==
    {[kind |-> "http", code |-> 200, resources |-> <<[status |-> s]>>] :
        s \in {"RUNNING", "DONE", "FAILED", "NONE", "absent"}}
        \cup {[kind |-> "http", code |-> 200, resources |-> <<>>],
              [kind |-> "http", code |-> 500, resources |-> <<>>],
              [kind |-> "exception", code |-> 0, resources |-> <<>>]}

\* HTTP 200, a resource list that is not empty, a first entry of status DONE
SaysDone(resp) ==
    /\ resp.kind = "http"
    /\ resp.code = 200
    /\ Len(resp.resources) > 0
    /\ resp.resources[1].status = "DONE"

\* C18: check_export_status returns true exactly when the answer is HTTP 200
\* with a resource list that is not empty and whose first entry has status
\* DONE; for every other answer (another code, an empty list, another or no
\* status, a transport exception) it returns false and raises nothing, and
\* download_export treats each false as "still pending": a wait of 30 s and
\* one attempt consumed.
C18_StatusCheckResult ==
    [][\A resp \in AnyStatusAnswer :
          StatusStep(resp) =>
              IF SaysDone(resp)
              THEN /\ obs'.resp = "DONE"
                   /\ obs'.slept = 0
                   /\ pc' = "dl_get"
                   /\ dl_attempt' = dl_attempt
              ELSE /\ obs'.resp = "not_done"
                   /\ ConsumesOneAttempt(PollInterval)
      ]_vars

\* status checks that came back false cost attempts, then one came back true
C18_Witness ==
    /\ pc = "dl_get"
    /\ obs.req = "status" /\ obs.resp = "DONE"
    /\ svcStatus = "DONE"
    /\ dl_attempt > 1

\* the distance to expiry a successful authentication can leave
GrantedTtl == {e - ExpiryMargin : e \in ExpiresInChoices}

\* C19: only get_auth_token writes the credential.  A successful
\* authentication replaces the token and its expiry together; a failed one
\* leaves both as they were; no other operation changes either (time that
\* passes only brings the expiry nearer).
C19_CredentialWrites ==
    [][/\ (access_token' # access_token \/ token_ttl' > token_ttl) =>
            /\ pc \in {"main_auth", "dl_refresh"}
            /\ obs'.req = "auth" /\ obs'.resp = "201"
            /\ access_token' \in Tokens \ {access_token}
            /\ token_ttl' \in GrantedTtl
       /\ (pc \in {"main_auth", "dl_refresh"} /\ pc' # pc /\ obs'.resp # "201") =>
            /\ access_token' = access_token
            /\ token_ttl' = Sleep(token_ttl, IF pc' = "submit" THEN RetryBackoff ELSE 0)
      ]_vars

\* a refresh was refused and the token held before is still there
C19_Witness ==
    /\ obs.req = "auth" /\ obs.resp = "403" /\ obs.job # None
    /\ access_token # None
    /\ pc = "merge"

\* C20: no status line is written while a spinner thread is running: every
\* status print of get_auth_token, create_export_job, check_export_status
\* and download_export comes after the active spinner was stopped and its
\* thread joined.  (The other prints of these methods follow a
\* spinner.stop() in the source; the line of check_export_status is the one
\* that can meet the spinner download_export started.)
C20_NoLineWhileSpinning ==
    [][\A resp \in AnyStatusAnswer :
          (StatusStep(resp) /\ StatusErrorLine(resp)) => ~spinning
      ]_vars

====
